---------------------------- MODULE Spec2Model ----------------------------
(***************************************************************************)
(* Model of the authorization / token-verification subsystem of auth-poc:  *)
(*   backend/src/services/authorization-service.ts  (AuthorizationService) *)
(*   backend/src/utils/environment.ts               (EnvironmentDetector)  *)
(*   backend/src/middleware/auth.ts                 (registerAuth hook)    *)
(*   backend/src/handlers/authorizer.ts             (Lambda authorizer)    *)
(*   backend/src/index.ts (Lambda entry point)      (handler)              *)
(*   backend/src/services/auth-service.ts           (AuthService)          *)
(*   frontend/src/contexts/AuthContext.tsx          (AuthProvider)         *)
(*   frontend/src/utils/token-storage.ts            (TokenStorage)         *)
(*                                                                         *)
(* JavaScript values are encoded as follows.                               *)
(*   - a string-typed property that is absent or undefined is UNDEF;       *)
(*   - "T | null" is a sequence of length at most one (None / Some(x));    *)
(*   - a string is a sequence of chunks: the space character SP, or a      *)
(*     maximal space-free run (a literal word or a bearer token).  A       *)
(*     bearer token carries what the verifiers can observe of it: whether  *)
(*     it starts with 'google.', what base64+JSON decoding of the rest     *)
(*     gives, and whether the two external verifiers (aws-jwt-verify,      *)
(*     google-auth-library) accept it.                                     *)
(***************************************************************************)
EXTENDS Naturals, Integers, Sequences, FiniteSets, TLC

VARIABLES mode, procEnv, now, currentLambdaEvent, inv, request, policy,
          session, verifiers, loginCall, fe

vars == <<mode, procEnv, now, currentLambdaEvent, inv, request, policy,
          session, verifiers, loginCall, fe>>

(***************************************************************************)
(* Bounds                                                                  *)
(***************************************************************************)
MaxTime == 2

Invocations == {"i1", "i2"}

\* minutes of browser time explored, and calls in flight per operation
MaxMinutes == 10

MaxPending == 1

(***************************************************************************)
(* Option values and JS truthiness                                         *)
(***************************************************************************)
None == <<>>

Some(x) == <<x>>

UNDEF == "<undefined>"

Truthy(s) == s \notin {UNDEF, ""}

Or(a, b) == IF Truthy(a) THEN a ELSE b

String(s) == IF s = UNDEF THEN "undefined" ELSE s

StringB(b) == IF b THEN "true" ELSE "false"

(***************************************************************************)
(* Configuration (getConfig): GOOGLE_CLIENT_ID is required and non-empty   *)
(***************************************************************************)
GoogleClientId == "gid.apps.googleusercontent.com"

OtherAudience == "other.apps.googleusercontent.com"

(***************************************************************************)
(* Token payloads (DecodedToken / GoogleTokenPayload)                      *)
(***************************************************************************)
ExpAbsent == [kind |-> "absent", n |-> 0]

ExpNum(n) == [kind |-> "num", n |-> n]

ExpStr == [kind |-> "str", n |-> 0]

ExpValues == {ExpAbsent, ExpStr} \cup {ExpNum(n) : n \in 0..(MaxTime + 1)}

NoClaims ==
  [sub |-> UNDEF, email |-> UNDEF, email_verified |-> UNDEF,
   cognito_username |-> UNDEF, token_use |-> UNDEF,
   name |-> UNDEF, given_name |-> UNDEF, family_name |-> UNDEF,
   picture |-> UNDEF, aud |-> UNDEF, exp |-> ExpAbsent]

GoodClaims ==
  [sub |-> "u-1", email |-> "ann@example.com", email_verified |-> "true",
   cognito_username |-> UNDEF, token_use |-> UNDEF,
   name |-> "Ann Lee", given_name |-> "Ann", family_name |-> UNDEF,
   picture |-> "", aud |-> GoogleClientId, exp |-> ExpNum(MaxTime + 1)]

CognitoClaims ==
  [GoodClaims EXCEPT !.sub = "u-2", !.email = "bob@example.com",
                     !.cognito_username = "bob", !.token_use = "access",
                     !.name = UNDEF, !.given_name = UNDEF, !.picture = UNDEF,
                     !.aud = UNDEF]

ClaimsValues ==
  {[GoodClaims EXCEPT !.sub = s, !.email = e] :
      s \in {UNDEF, "u-1"}, e \in {UNDEF, "", "ann@example.com"}}
  \cup {[GoodClaims EXCEPT !.aud = a, !.exp = x] :
      a \in {UNDEF, GoogleClientId, OtherAudience}, x \in ExpValues}

(***************************************************************************)
(* Strings as chunk sequences                                              *)
(***************************************************************************)
Word(s) ==
  [w |-> s, pfx |-> FALSE, body |-> "nojson", claims |-> NoClaims,
   cognitoOK |-> FALSE, googleOK |-> FALSE]

SP == Word(" ")

Bearer == Word("Bearer")

\* 'google.' + base64 text: body is what Buffer.from(..,'base64') followed
\* by JSON.parse yields.  Its first segment is not a JWT header, so neither
\* external verifier accepts it.
CompatToken(b, c) ==
  [w |-> "<token>", pfx |-> TRUE, body |-> b, claims |-> c,
   cognitoOK |-> FALSE, googleOK |-> FALSE]

\* a token without the prefix: a JWT (or garbage); c is its payload
JwtToken(cog, goo, c) ==
  [w |-> "<token>", pfx |-> FALSE, body |-> "nojson", claims |-> c,
   cognitoOK |-> cog, googleOK |-> goo]

CompatTokens ==
  {CompatToken("obj", c) : c \in ClaimsValues}
  \cup {CompatToken(b, NoClaims) : b \in {"nojson", "null", "scalar"}}

JwtTokens ==
  {JwtToken(TRUE, FALSE, [CognitoClaims EXCEPT !.sub = s, !.email = e]) :
      s \in {UNDEF, "u-2"}, e \in {UNDEF, "bob@example.com"}}
  \cup {JwtToken(FALSE, TRUE, GoodClaims), JwtToken(FALSE, FALSE, GoodClaims)}

Tokens == CompatTokens \cup JwtTokens

(***************************************************************************)
(* Header values: undefined, a string, or a non-string object              *)
(***************************************************************************)
HUndefined == [type |-> "undefined", s |-> <<>>]

HString(s) == [type |-> "string", s |-> s]

HObject == [type |-> "object", s |-> <<>>]

HTruthy(h) == h.type = "object" \/ (h.type = "string" /\ h.s # <<>>)

HeaderStrings ==
  {<<>>, <<Bearer>>, <<Bearer, SP>>}
  \cup {<<Bearer, SP, t>> : t \in Tokens}
  \cup {<<Word("bearer"), SP, t>> : t \in {JwtToken(TRUE, FALSE, CognitoClaims)}}
  \cup {<<Word("Basic"), SP, t>> : t \in {JwtToken(TRUE, FALSE, CognitoClaims)}}
  \cup {<<Bearer, SP, SP, t>> : t \in {JwtToken(TRUE, FALSE, CognitoClaims)}}
  \cup {<<Bearer, SP, t, SP, t>> : t \in {CompatToken("obj", GoodClaims)}}

HeaderValues == {HUndefined} \cup {HString(s) : s \in HeaderStrings}

(***************************************************************************)
(* Errors and results of operations that may throw                         *)
(***************************************************************************)
NoError == [name |-> "", message |-> ""]

AuthorizationError(m) == [name |-> "AuthorizationError", message |-> m]

TypeError == [name |-> "TypeError", message |-> "not a function"]

SyntaxError == [name |-> "SyntaxError", message |-> "Unexpected token"]

(***************************************************************************)
(* AuthorizationService.extractTokenFromHeader                             *)
(***************************************************************************)
RECURSIVE split(_)
\* String.prototype.split(' ')
split(s) ==
  IF s = <<>> THEN << <<>> >>
  ELSE IF Head(s) = SP THEN << <<>> >> \o split(Tail(s))
  ELSE LET cons(r) == << <<Head(s)>> \o r[1] >> \o Tail(r)
       IN  cons(split(Tail(s)))

extractTokenFromHeader(authorizationHeader) ==
  LET check(parts) ==
        IF Len(parts) # 2 \/ parts[1] # <<Bearer>>
          THEN [ok |-> FALSE, token |-> <<>>,
                error |-> AuthorizationError("Invalid Authorization header format")]
          ELSE [ok |-> TRUE, token |-> parts[2], error |-> NoError]
  IN  IF ~HTruthy(authorizationHeader)
        THEN [ok |-> FALSE, token |-> <<>>,
              error |-> AuthorizationError("Missing Authorization header")]
      ELSE IF authorizationHeader.type # "string"
        THEN [ok |-> FALSE, token |-> <<>>, error |-> TypeError]
      ELSE check(split(authorizationHeader.s))

(***************************************************************************)
(* What the verifiers observe of a token string (a space-free string)      *)
(***************************************************************************)
startsWithGoogle(token) == Len(token) >= 1 /\ token[1].pfx

\* CognitoJwtVerifier.verify resolves
CognitoAccepts(token) == Len(token) = 1 /\ token[1].cognitoOK

\* OAuth2Client.verifyIdToken resolves with a payload
GoogleAccepts(token) == Len(token) = 1 /\ token[1].googleOK

PayloadOf(token) == IF Len(token) = 1 THEN token[1].claims ELSE NoClaims

\* Buffer.from(rest, 'base64').toString() then JSON.parse
DecodedBody(token) == IF Len(token) = 1 THEN token[1].body ELSE "nojson"

(***************************************************************************)
(* AuthorizationService.verifyCognitoToken                                 *)
(***************************************************************************)
verifyCognitoToken(token) ==
  IF CognitoAccepts(token)
    THEN [ok |-> TRUE, payload |-> PayloadOf(token), error |-> NoError,
          calls |-> <<"cognitoVerifier.verify">>]
    ELSE [ok |-> FALSE, payload |-> NoClaims,
          error |-> AuthorizationError("Invalid Cognito token"),
          calls |-> <<"cognitoVerifier.verify">>]

(***************************************************************************)
(* AuthorizationService.verifyCustomGoogleToken                            *)
(***************************************************************************)
\* payload.exp && payload.exp < now
Expired(exp) == exp.kind = "num" /\ exp.n # 0 /\ exp.n < now

\* variant: the audience comparison is left out
CustomTokenFailure_noAudienceCheck(token) ==
  LET b == DecodedBody(token)
      payload == PayloadOf(token)
  IN  IF b = "nojson" THEN "SyntaxError"
      ELSE IF b = "null" THEN "TypeError"
      ELSE IF b = "obj" /\ Expired(payload.exp) THEN "Token has expired"
      ELSE ""

\* the reason thrown inside the try block, "" when nothing is thrown
CustomTokenFailure(token) ==
  LET b == DecodedBody(token)
      payload == PayloadOf(token)
  IN  IF b = "nojson" THEN "SyntaxError"
      ELSE IF b = "null" THEN "TypeError"
      ELSE IF b = "obj" /\ Expired(payload.exp) THEN "Token has expired"
      ELSE IF b = "scalar" \/ payload.aud # GoogleClientId
        THEN "Invalid token audience"
      ELSE ""

verifyCustomGoogleToken(token) ==
  IF CustomTokenFailure(token) = ""
    THEN [ok |-> TRUE, payload |-> PayloadOf(token), error |-> NoError,
          calls |-> <<"verifyCustomGoogleToken">>]
    ELSE [ok |-> FALSE, payload |-> NoClaims,
          error |-> AuthorizationError("Invalid custom Google token"),
          calls |-> <<"verifyCustomGoogleToken">>]

(***************************************************************************)
(* AuthorizationService.verifyGoogleToken                                  *)
(***************************************************************************)
verifyGoogleToken(token) ==
  LET rethrown(r) ==
        IF r.ok THEN r
        ELSE [r EXCEPT !.error = AuthorizationError("Invalid Google token")]
  IN  IF startsWithGoogle(token)
        THEN rethrown(verifyCustomGoogleToken(token))
      ELSE IF GoogleAccepts(token)
        THEN [ok |-> TRUE, payload |-> PayloadOf(token), error |-> NoError,
              calls |-> <<"googleClient.verifyIdToken">>]
        ELSE [ok |-> FALSE, payload |-> NoClaims,
              error |-> AuthorizationError("Invalid Google token"),
              calls |-> <<"googleClient.verifyIdToken">>]

(***************************************************************************)
(* AuthorizationService.verifyToken                                        *)
(***************************************************************************)
\* variant: the verifier is chosen from the 'google.' prefix, and only that
\* one verifier is tried
verifyToken_shapeFirst(token) ==
  LET only(r, tokenType) ==
        [ok |-> r.ok, userInfo |-> r.payload,
         tokenType |-> IF r.ok THEN tokenType ELSE UNDEF,
         error |-> IF r.ok THEN NoError ELSE AuthorizationError("Invalid token"),
         calls |-> r.calls]
  IN  IF startsWithGoogle(token)
        THEN only(verifyCustomGoogleToken(token), "google")
        ELSE only(verifyCognitoToken(token), "cognito")

\* variant: the token type is read off the 'google.' prefix instead of the
\* verifier that accepted the token
verifyToken_typeFromPrefix(token) ==
  LET typeOf == IF startsWithGoogle(token) THEN "google" ELSE "cognito"
      afterGoogle(c, g) ==
        IF g.ok
          THEN [ok |-> TRUE, userInfo |-> g.payload, tokenType |-> typeOf,
                error |-> NoError, calls |-> c.calls \o g.calls]
          ELSE [ok |-> FALSE, userInfo |-> NoClaims, tokenType |-> UNDEF,
                error |-> AuthorizationError("Invalid token"),
                calls |-> c.calls \o g.calls]
      afterCognito(c) ==
        IF c.ok
          THEN [ok |-> TRUE, userInfo |-> c.payload, tokenType |-> typeOf,
                error |-> NoError, calls |-> c.calls]
          ELSE afterGoogle(c, verifyGoogleToken(token))
  IN  afterCognito(verifyCognitoToken(token))

\* variant: the error of the last verifier that failed is passed on instead
\* of the generic one
verifyToken_leaksReason(token) ==
  LET afterGoogle(c, g) ==
        IF g.ok
          THEN [ok |-> TRUE, userInfo |-> g.payload, tokenType |-> "google",
                error |-> NoError, calls |-> c.calls \o g.calls]
          ELSE [ok |-> FALSE, userInfo |-> NoClaims, tokenType |-> UNDEF,
                error |-> g.error, calls |-> c.calls \o g.calls]
      afterCognito(c) ==
        IF c.ok
          THEN [ok |-> TRUE, userInfo |-> c.payload, tokenType |-> "cognito",
                error |-> NoError, calls |-> c.calls]
          ELSE afterGoogle(c, verifyGoogleToken(token))
  IN  afterCognito(verifyCognitoToken(token))

\* variant: the errors of decoding a compatibility token (JSON.parse, a
\* property read on null) are not converted
verifyToken_decodeUnguarded(token) ==
  LET afterGoogle(c, g) ==
        IF g.ok
          THEN [ok |-> TRUE, userInfo |-> g.payload, tokenType |-> "google",
                error |-> NoError, calls |-> c.calls \o g.calls]
          ELSE [ok |-> FALSE, userInfo |-> NoClaims, tokenType |-> UNDEF,
                error |-> IF ~startsWithGoogle(token)
                            THEN AuthorizationError("Invalid token")
                          ELSE IF CustomTokenFailure(token) = "SyntaxError"
                            THEN SyntaxError
                          ELSE IF CustomTokenFailure(token) = "TypeError"
                            THEN TypeError
                          ELSE AuthorizationError("Invalid token"),
                calls |-> c.calls \o g.calls]
      afterCognito(c) ==
        IF c.ok
          THEN [ok |-> TRUE, userInfo |-> c.payload, tokenType |-> "cognito",
                error |-> NoError, calls |-> c.calls]
          ELSE afterGoogle(c, verifyGoogleToken(token))
  IN  afterCognito(verifyCognitoToken(token))

verifyToken(token) ==
  LET afterGoogle(c, g) ==
        IF g.ok
          THEN [ok |-> TRUE, userInfo |-> g.payload, tokenType |-> "google",
                error |-> NoError, calls |-> c.calls \o g.calls]
          ELSE [ok |-> FALSE, userInfo |-> NoClaims, tokenType |-> UNDEF,
                error |-> AuthorizationError("Invalid token"),
                calls |-> c.calls \o g.calls]
      afterCognito(c) ==
        IF c.ok
          THEN [ok |-> TRUE, userInfo |-> c.payload, tokenType |-> "cognito",
                error |-> NoError, calls |-> c.calls]
          ELSE afterGoogle(c, verifyGoogleToken(token))
  IN  afterCognito(verifyCognitoToken(token))

(***************************************************************************)
(* AuthContext and AuthorizationService.createAuthContext                  *)
(***************************************************************************)
EmptyContext ==
  [userId |-> UNDEF, email |-> UNDEF, tokenType |-> UNDEF,
   emailVerified |-> FALSE, username |-> UNDEF, tokenUse |-> UNDEF,
   name |-> UNDEF, givenName |-> UNDEF, familyName |-> UNDEF,
   picture |-> UNDEF]

\* variant: a profile field the claims lack is left out of the context
createAuthContext_omitsEmptyProfile(userInfo, tokenType) ==
  LET baseContext ==
        [EmptyContext EXCEPT !.userId = userInfo.sub,
                             !.email = userInfo.email,
                             !.tokenType = tokenType,
                             !.emailVerified = (userInfo.email_verified = "true")]
  IN  IF tokenType = "cognito"
        THEN [baseContext EXCEPT
                !.username = Or(userInfo.cognito_username, userInfo.sub),
                !.tokenUse = Or(userInfo.token_use, "")]
        ELSE [baseContext EXCEPT
                !.name = Or(userInfo.name, UNDEF),
                !.givenName = Or(userInfo.given_name, UNDEF),
                !.familyName = Or(userInfo.family_name, UNDEF),
                !.picture = Or(userInfo.picture, UNDEF)]

createAuthContext(userInfo, tokenType) ==
  LET baseContext ==
        [EmptyContext EXCEPT !.userId = userInfo.sub,
                             !.email = userInfo.email,
                             !.tokenType = tokenType,
                             !.emailVerified = (userInfo.email_verified = "true")]
  IN  IF tokenType = "cognito"
        THEN [baseContext EXCEPT
                !.username = Or(userInfo.cognito_username, userInfo.sub),
                !.tokenUse = Or(userInfo.token_use, "")]
        ELSE [baseContext EXCEPT
                !.name = Or(userInfo.name, ""),
                !.givenName = Or(userInfo.given_name, ""),
                !.familyName = Or(userInfo.family_name, ""),
                !.picture = Or(userInfo.picture, "")]

(***************************************************************************)
(* AuthorizationService.authorizeRequest                                   *)
(***************************************************************************)
authorizeRequest(authorizationHeader) ==
  LET verified(v) ==
        IF ~v.ok
          THEN [ok |-> FALSE, context |-> EmptyContext, error |-> v.error,
                calls |-> v.calls]
          ELSE [ok |-> TRUE,
                context |-> createAuthContext(v.userInfo, v.tokenType),
                error |-> NoError, calls |-> v.calls]
      extracted(e) ==
        IF ~e.ok
          THEN [ok |-> FALSE, context |-> EmptyContext, error |-> e.error,
                calls |-> <<>>]
          ELSE verified(verifyToken(e.token))
  IN  extracted(extractTokenFromHeader(authorizationHeader))

(***************************************************************************)
(* String-keyed maps (request headers, the authorizer's context map)       *)
(***************************************************************************)
Get(m, k) == IF k \in DOMAIN m THEN m[k] ELSE UNDEF

EmptyMap == [k \in {} |-> ""]

(***************************************************************************)
(* AuthorizationService.createAuthContextFromHeaders                       *)
(***************************************************************************)
\* variant: x-auth-token-type is not among the required headers
createAuthContextFromHeaders_ignoresTokenType(headers) ==
  LET userId == Get(headers.x, "x-auth-user-id")
      email == Get(headers.x, "x-auth-email")
      tokenType == Get(headers.x, "x-auth-token-type")
      emailVerified == (Get(headers.x, "x-auth-email-verified") = "true")
      baseContext ==
        [EmptyContext EXCEPT !.userId = userId, !.email = email,
                             !.tokenType = tokenType,
                             !.emailVerified = emailVerified]
  IN  IF ~Truthy(userId) \/ ~Truthy(email)
        THEN None
      ELSE IF tokenType = "cognito"
        THEN Some([baseContext EXCEPT
               !.username = Or(Get(headers.x, "x-auth-username"), userId),
               !.tokenUse = Or(Get(headers.x, "x-auth-token-use"), "")])
        ELSE Some([baseContext EXCEPT
               !.name = Or(Get(headers.x, "x-auth-name"), ""),
               !.givenName = Or(Get(headers.x, "x-auth-given-name"), ""),
               !.familyName = Or(Get(headers.x, "x-auth-family-name"), ""),
               !.picture = Or(Get(headers.x, "x-auth-picture"), "")])

\* headers.x holds the string-valued x-auth-* entries of the header map
createAuthContextFromHeaders(headers) ==
  LET userId == Get(headers.x, "x-auth-user-id")
      email == Get(headers.x, "x-auth-email")
      tokenType == Get(headers.x, "x-auth-token-type")
      emailVerified == (Get(headers.x, "x-auth-email-verified") = "true")
      baseContext ==
        [EmptyContext EXCEPT !.userId = userId, !.email = email,
                             !.tokenType = tokenType,
                             !.emailVerified = emailVerified]
  IN  IF ~Truthy(userId) \/ ~Truthy(email) \/ ~Truthy(tokenType)
        THEN None
      ELSE IF tokenType = "cognito"
        THEN Some([baseContext EXCEPT
               !.username = Or(Get(headers.x, "x-auth-username"), userId),
               !.tokenUse = Or(Get(headers.x, "x-auth-token-use"), "")])
        ELSE Some([baseContext EXCEPT
               !.name = Or(Get(headers.x, "x-auth-name"), ""),
               !.givenName = Or(Get(headers.x, "x-auth-given-name"), ""),
               !.familyName = Or(Get(headers.x, "x-auth-family-name"), ""),
               !.picture = Or(Get(headers.x, "x-auth-picture"), "")])

(***************************************************************************)
(* AuthService.createFederatedTokens (auth-service.ts)                     *)
(***************************************************************************)
TokenLifetime == 3600

PayloadKeys ==
  {"sub", "email", "email_verified", "name", "given_name", "family_name",
   "picture", "aud", "iss"}

\* JSON.stringify of the payload object: a property whose value is
\* undefined is left out of the text; exp and iat are numbers
JSONstringify(obj) ==
  [strings |-> [k \in {f \in PayloadKeys : obj.strings[f] # UNDEF} |->
                  obj.strings[k]],
   iat |-> obj.iat, exp |-> obj.exp]

\* JSON.parse of such a text, read as a token payload: a property that is
\* not in the text reads as undefined
JSONparse(text) ==
  [sub |-> Get(text.strings, "sub"), email |-> Get(text.strings, "email"),
   email_verified |-> Get(text.strings, "email_verified"),
   cognito_username |-> UNDEF, token_use |-> UNDEF,
   name |-> Get(text.strings, "name"),
   given_name |-> Get(text.strings, "given_name"),
   family_name |-> Get(text.strings, "family_name"),
   picture |-> Get(text.strings, "picture"),
   aud |-> Get(text.strings, "aud"), exp |-> ExpNum(text.exp)]

\* variant: the token's subject is taken from the Google payload's sub
createFederatedTokens_googleSub(googleUser) ==
  LET basePayload ==
        [strings |-> [k \in PayloadKeys |->
                        CASE k = "sub" -> googleUser.sub
                          [] k = "aud" -> GoogleClientId
                          [] k = "iss" -> "https://accounts.google.com"
                          [] OTHER -> googleUser[k]],
         iat |-> now, exp |-> now + TokenLifetime]
      customToken == CompatToken("obj", JSONparse(JSONstringify(basePayload)))
  IN  [accessToken |-> <<customToken>>, idToken |-> <<customToken>>,
       refreshToken |-> <<>>, expiresIn |-> TokenLifetime, tokenType |-> "Bearer"]

\* 'google.' + base64(JSON.stringify(basePayload)); the token is kept as
\* what decoding it gives
createFederatedTokens(googleUser) ==
  LET basePayload ==
        [strings |-> [k \in PayloadKeys |->
                        CASE k = "sub" -> googleUser.userId
                          [] k = "aud" -> GoogleClientId
                          [] k = "iss" -> "https://accounts.google.com"
                          [] OTHER -> googleUser[k]],
         iat |-> now, exp |-> now + TokenLifetime]
      customToken == CompatToken("obj", JSONparse(JSONstringify(basePayload)))
  IN  [accessToken |-> <<customToken>>, idToken |-> <<customToken>>,
       refreshToken |-> <<>>, expiresIn |-> TokenLifetime, tokenType |-> "Bearer"]

(***************************************************************************)
(* EnvironmentDetector                                                     *)
(***************************************************************************)
\* variant: AWS_REGION alone counts as a marker of the managed platform
isAWSEnvironment_regionAlone(event) ==
  \/ (event # None /\ event[1].requestContext # None)
  \/ procEnv.AWS_LAMBDA_FUNCTION_NAME \/ procEnv.AWS_EXECUTION_ENV
  \/ procEnv.AWS_REGION

\* event is None (null / undefined) or Some(platform event)
isAWSEnvironment(event) ==
  \/ (event # None /\ event[1].requestContext # None)
  \/ procEnv.AWS_LAMBDA_FUNCTION_NAME \/ procEnv.AWS_EXECUTION_ENV
  \/ (procEnv.AWS_REGION /\ procEnv.AWS_LAMBDA_RUNTIME_API)

getEnvironmentContext(event) ==
  LET isAWS == isAWSEnvironment(event) IN
  [isAWS |-> isAWS, isLocal |-> ~isAWS, hasRegion |-> isAWS]

\* returns null outside AWS; reads event.requestContext without a guard, so
\* a null event inside AWS raises a TypeError
extractAWSEventContext(event) ==
  IF ~isAWSEnvironment(event)
    THEN [threw |-> FALSE, ctx |-> None]
  ELSE IF event = None
    THEN [threw |-> TRUE, ctx |-> None]
  ELSE LET rc == event[1].requestContext
           authorizer == IF rc = None THEN None ELSE rc[1].authorizer
       IN [threw |-> FALSE,
           ctx |-> Some([event |-> event[1],
                         hasAuthorizer |-> authorizer # None,
                         authorizer |-> authorizer])]

RECURSIVE FirstAWSEvent(_)
FirstAWSEvent(possibleEvents) ==
  IF possibleEvents = <<>> THEN None
  ELSE IF Head(possibleEvents) # None /\ isAWSEnvironment(Head(possibleEvents))
    THEN Head(possibleEvents)
  ELSE FirstAWSEvent(Tail(possibleEvents))

extractLambdaEvent(req, globalEvent) ==
  FirstAWSEvent(<<globalEvent, req.awsLambda, req.event, req.lambdaEvent>>)

(***************************************************************************)
(* registerAuth preHandler (middleware/auth.ts)                            *)
(***************************************************************************)
Logged(src, calls) == [i \in 1..Len(calls) |-> [src |-> src, fn |-> calls[i]]]

\* lines 62-80: the context built from requestContext.authorizer
authorizerMapping(authorizer) ==
  LET tokenType == Get(authorizer, "tokenType")
      base == [EmptyContext EXCEPT
                 !.userId = Or(Get(authorizer, "userId"), Get(authorizer, "username")),
                 !.email = Get(authorizer, "email"),
                 !.tokenType = tokenType,
                 !.emailVerified = (Get(authorizer, "emailVerified") = "true")]
  IN  IF tokenType = "cognito"
        THEN [base EXCEPT !.username = Get(authorizer, "username"),
                          !.tokenUse = Get(authorizer, "tokenUse")]
      ELSE IF tokenType = "google"
        THEN [base EXCEPT !.name = Get(authorizer, "name"),
                          !.givenName = Get(authorizer, "givenName"),
                          !.familyName = Get(authorizer, "familyName"),
                          !.picture = Get(authorizer, "picture")]
      ELSE base

\* request.headers?.authorization || request.headers?.Authorization
authHeaderOf(req) ==
  IF HTruthy(req.headers.authorization) THEN req.headers.authorization
  ELSE req.headers.Authorization

\* `Bearer ${request.cookies.access_token}`
cookieAuthHeader(req) == HString(<<Bearer, SP>> \o req.cookies.access_token.s)

\* let authContext = null, before any source was tried
NotTried ==
  [ok |-> FALSE, context |-> EmptyContext, error |-> NoError, calls |-> <<>>]

\* catch (error) { logger.error(...); authContext = null }
Caught(src, tried, r) ==
  IF tried /\ ~r.ok THEN <<[src |-> src, error |-> r.error]>> ELSE <<>>

\* variant: the cookie is verified before the Authorization header
localBranch_cookieFirst(req) ==
  LET finish(c, tryHeader, h) ==
        [authContext |-> IF c.ok THEN Some(c.context)
                         ELSE IF h.ok THEN Some(h.context) ELSE None,
         attempts |-> (IF HTruthy(req.cookies.access_token)
                         THEN <<"cookie">> ELSE <<>>)
                      \o (IF tryHeader THEN <<"header">> ELSE <<>>),
         calls |-> Logged("cookie", c.calls) \o Logged("header", h.calls),
         source |-> IF c.ok THEN "cookie" ELSE IF h.ok THEN "header" ELSE "none",
         threw |-> FALSE,
         errors |-> Caught("cookie", HTruthy(req.cookies.access_token), c)
                    \o Caught("header", tryHeader, h)]
      afterCookie(c) ==
        finish(c, ~c.ok /\ HTruthy(authHeaderOf(req)),
               IF ~c.ok /\ HTruthy(authHeaderOf(req))
                 THEN authorizeRequest(authHeaderOf(req)) ELSE NotTried)
  IN  afterCookie(IF HTruthy(req.cookies.access_token)
                    THEN authorizeRequest(cookieAuthHeader(req)) ELSE NotTried)

\* variant: a failed verification of the Authorization header is not
\* caught, so the hook fails the request
localBranch_errorsEscape(req) ==
  LET finish(h, tryCookie, c) ==
        [authContext |-> IF h.ok THEN Some(h.context)
                         ELSE IF c.ok /\ ~HTruthy(authHeaderOf(req))
                           THEN Some(c.context) ELSE None,
         attempts |-> (IF HTruthy(authHeaderOf(req)) THEN <<"header">> ELSE <<>>)
                      \o (IF tryCookie /\ ~HTruthy(authHeaderOf(req))
                            THEN <<"cookie">> ELSE <<>>),
         calls |-> Logged("header", h.calls)
                   \o (IF HTruthy(authHeaderOf(req)) THEN <<>>
                       ELSE Logged("cookie", c.calls)),
         source |-> IF h.ok THEN "header"
                    ELSE IF c.ok /\ ~HTruthy(authHeaderOf(req)) THEN "cookie"
                    ELSE "none",
         threw |-> HTruthy(authHeaderOf(req)) /\ ~h.ok,
         errors |-> IF HTruthy(authHeaderOf(req)) THEN <<>>
                    ELSE Caught("cookie", tryCookie, c)]
      afterHeader(h) ==
        finish(h, ~h.ok /\ HTruthy(req.cookies.access_token),
               IF ~h.ok /\ HTruthy(req.cookies.access_token)
                 THEN authorizeRequest(cookieAuthHeader(req)) ELSE NotTried)
  IN  afterHeader(IF HTruthy(authHeaderOf(req))
                    THEN authorizeRequest(authHeaderOf(req)) ELSE NotTried)

\* lines 88-130; errors lists what the two catch blocks caught and logged
localBranch(req) ==
  LET finish(h, tryCookie, c) ==
        [authContext |-> IF h.ok THEN Some(h.context)
                         ELSE IF c.ok THEN Some(c.context) ELSE None,
         attempts |-> (IF HTruthy(authHeaderOf(req)) THEN <<"header">> ELSE <<>>)
                      \o (IF tryCookie THEN <<"cookie">> ELSE <<>>),
         calls |-> Logged("header", h.calls) \o Logged("cookie", c.calls),
         source |-> IF h.ok THEN "header" ELSE IF c.ok THEN "cookie" ELSE "none",
         threw |-> FALSE,
         errors |-> Caught("header", HTruthy(authHeaderOf(req)), h)
                    \o Caught("cookie", tryCookie, c)]
      afterHeader(h) ==
        finish(h, ~h.ok /\ HTruthy(req.cookies.access_token),
               IF ~h.ok /\ HTruthy(req.cookies.access_token)
                 THEN authorizeRequest(cookieAuthHeader(req)) ELSE NotTried)
  IN  afterHeader(IF HTruthy(authHeaderOf(req))
                    THEN authorizeRequest(authHeaderOf(req)) ELSE NotTried)

\* lines 61-80: the context taken from requestContext.authorizer, if any
fromAuthorizer(awsContext) ==
  IF awsContext.hasAuthorizer /\ awsContext.authorizer # None
    THEN Some(authorizerMapping(awsContext.authorizer[1]))
    ELSE None

\* variant: the fallback of the AWS branch verifies the bearer header and
\* the cookie instead of reading the x-auth-* headers
awsBranch_fallbackVerifies(req, awsContext) ==
  LET choose(a) ==
        IF a = None THEN localBranch(req)
        ELSE [authContext |-> a, attempts |-> <<>>, calls |-> <<>>,
              source |-> "authorizer", threw |-> FALSE, errors |-> <<>>]
  IN  choose(fromAuthorizer(awsContext))

\* variant: the AWS branch verifies the bearer header again although the
\* upstream authorizer has already done so
awsBranch_reverifies(req, awsContext) ==
  LET fallback(c) ==
        [authContext |-> c, attempts |-> <<>>, calls |-> <<>>,
         source |-> IF c # None THEN "x-auth" ELSE "none",
         threw |-> FALSE, errors |-> <<>>]
      reverified(a, v) ==
        [authContext |-> IF v.ok THEN a ELSE None, attempts |-> <<"header">>,
         calls |-> Logged("header", v.calls), source |-> "authorizer",
         threw |-> FALSE, errors |-> <<>>]
      choose(a) ==
        IF a = None THEN fallback(createAuthContextFromHeaders(req.headers))
        ELSE reverified(a, authorizeRequest(authHeaderOf(req)))
  IN  choose(fromAuthorizer(awsContext))

\* lines 55-87
awsBranch(req, awsContext) ==
  LET fallback(c) ==
        [authContext |-> c, attempts |-> <<>>, calls |-> <<>>,
         source |-> IF c # None THEN "x-auth" ELSE "none",
         threw |-> FALSE, errors |-> <<>>]
      choose(a) ==
        IF a = None THEN fallback(createAuthContextFromHeaders(req.headers))
        ELSE [authContext |-> a, attempts |-> <<>>, calls |-> <<>>,
              source |-> "authorizer", threw |-> FALSE, errors |-> <<>>]
  IN  choose(fromAuthorizer(awsContext))

NoResult ==
  [threw |-> FALSE, authContext |-> None, attempts |-> <<>>, calls |-> <<>>,
   branch |-> "none", source |-> "none", event |-> None, errors |-> <<>>,
   env |-> [isAWS |-> FALSE, isLocal |-> TRUE, hasRegion |-> FALSE]]

preHandler(req, globalEvent) ==
  LET done(branch, event, environmentContext, r) ==
        [threw |-> r.threw, authContext |-> r.authContext,
         attempts |-> r.attempts, calls |-> r.calls, branch |-> branch,
         source |-> r.source, event |-> event, errors |-> r.errors,
         env |-> environmentContext]
      run(event, environmentContext, awsContext) ==
        IF awsContext.threw
          THEN [NoResult EXCEPT !.threw = TRUE, !.event = event,
                                !.env = environmentContext]
        ELSE IF environmentContext.isAWS /\ awsContext.ctx # None
          THEN done("aws", event, environmentContext,
                    awsBranch(req, awsContext.ctx[1]))
          ELSE done("local", event, environmentContext, localBranch(req))
      withEvent(event) ==
        run(event, getEnvironmentContext(event), extractAWSEventContext(event))
  IN  withEvent(extractLambdaEvent(req, globalEvent))

(***************************************************************************)
(* requireAuth (middleware/auth.ts) and the protected routes (users.ts)    *)
(***************************************************************************)
ProtectedRoutes == {"/api/user", "/api/data", "/api/auth-test"}

\* variant: the gate logs the missing context but lets the request through
requireAuth_logsOnly(authContext) ==
  [threw |-> FALSE, statusCode |-> 200]

\* if (!request.authContext) { reply.code(401); throw new Error('Unauthorized') }
requireAuth(authContext) ==
  IF authContext = None THEN [threw |-> TRUE, statusCode |-> 401]
  ELSE [threw |-> FALSE, statusCode |-> 200]

NoReply == [gate |-> "none", statusCode |-> 0, handlerRan |-> FALSE]

\* the preHandler hooks of a request in registration order, then the route
\* handler: a hook that throws ends the request (a plain error gives 500
\* unless the reply already carries an error status)
routeRequest(url, pre) ==
  LET gated(g) ==
        [gate |-> IF g.threw THEN "rejected" ELSE "passed",
         statusCode |-> g.statusCode, handlerRan |-> ~g.threw]
  IN  IF pre.threw
        THEN [gate |-> "skipped", statusCode |-> 500, handlerRan |-> FALSE]
      ELSE IF url \in ProtectedRoutes
        THEN gated(requireAuth(pre.authContext))
      ELSE [gate |-> "none", statusCode |-> 200, handlerRan |-> TRUE]

(***************************************************************************)
(* Lambda authorizer (handlers/authorizer.ts)                              *)
(***************************************************************************)
generatePolicy(principalId, effect, resource, context) ==
  [principalId |-> principalId, effect |-> effect, resource |-> resource,
   context |-> context]

\* variant: the common fields are copied without String(...)
stringAuthContext_uncoerced(authContext) ==
  LET common ==
        [k \in {"userId", "email", "tokenType", "emailVerified"} |->
           CASE k = "userId" -> authContext.userId
             [] k = "email" -> authContext.email
             [] k = "tokenType" -> authContext.tokenType
             [] k = "emailVerified" -> StringB(authContext.emailVerified)]
      cognito ==
        [k \in {"username", "tokenUse"} |->
           CASE k = "username" -> String(Or(authContext.username, authContext.userId))
             [] k = "tokenUse" -> String(Or(authContext.tokenUse, ""))]
      google ==
        [k \in {"name", "givenName", "familyName", "picture"} |->
           CASE k = "name" -> String(Or(authContext.name, ""))
             [] k = "givenName" -> String(Or(authContext.givenName, ""))
             [] k = "familyName" -> String(Or(authContext.familyName, ""))
             [] k = "picture" -> String(Or(authContext.picture, ""))]
  IN  IF authContext.tokenType = "cognito" THEN common @@ cognito
      ELSE IF authContext.tokenType = "google" THEN common @@ google
      ELSE common

\* lines 63-78
stringAuthContext(authContext) ==
  LET common ==
        [k \in {"userId", "email", "tokenType", "emailVerified"} |->
           CASE k = "userId" -> String(authContext.userId)
             [] k = "email" -> String(authContext.email)
             [] k = "tokenType" -> String(authContext.tokenType)
             [] k = "emailVerified" -> StringB(authContext.emailVerified)]
      cognito ==
        [k \in {"username", "tokenUse"} |->
           CASE k = "username" -> String(Or(authContext.username, authContext.userId))
             [] k = "tokenUse" -> String(Or(authContext.tokenUse, ""))]
      google ==
        [k \in {"name", "givenName", "familyName", "picture"} |->
           CASE k = "name" -> String(Or(authContext.name, ""))
             [] k = "givenName" -> String(Or(authContext.givenName, ""))
             [] k = "familyName" -> String(Or(authContext.familyName, ""))
             [] k = "picture" -> String(Or(authContext.picture, ""))]
  IN  IF authContext.tokenType = "cognito" THEN common @@ cognito
      ELSE IF authContext.tokenType = "google" THEN common @@ google
      ELSE common

\* variant: an error that is not an AuthorizationError escapes the handler
authorizerHandler_rethrowUnexpected(event) ==
  LET respond(a) ==
        IF a.ok
          THEN [threw |-> FALSE, authorized |-> TRUE, error |-> NoError,
                calls |-> a.calls,
                result |-> generatePolicy(a.context.userId, "Allow",
                                          event.methodArn,
                                          stringAuthContext(a.context))]
          ELSE [threw |-> a.error.name # "AuthorizationError",
                authorized |-> FALSE, error |-> a.error, calls |-> a.calls,
                result |-> generatePolicy("user", "Deny", event.methodArn,
                                          EmptyMap)]
  IN  respond(authorizeRequest(event.authorizationToken))

\* lines 42-94; the result records whether the handler threw
authorizerHandler(event) ==
  LET respond(a) ==
        IF a.ok
          THEN [threw |-> FALSE, authorized |-> TRUE, error |-> NoError,
                calls |-> a.calls,
                result |-> generatePolicy(a.context.userId, "Allow",
                                          event.methodArn,
                                          stringAuthContext(a.context))]
          ELSE [threw |-> FALSE, authorized |-> FALSE, error |-> a.error,
                calls |-> a.calls,
                result |-> generatePolicy("user", "Deny", event.methodArn,
                                          EmptyMap)]
  IN  respond(authorizeRequest(event.authorizationToken))

(***************************************************************************)
(* AuthorizationService.initializeVerifiers: the fields cognitoVerifier    *)
(* and googleClient of the service instance.  An object is identified by   *)
(* the serial number of the constructor call that made it; creates counts  *)
(* the calls of CognitoJwtVerifier.create and of new OAuth2Client.         *)
(***************************************************************************)
NoVerifiers ==
  [cognitoVerifier |-> None, googleClient |-> None,
   creates |-> [cognito |-> 0, google |-> 0]]

\* variant: the verifier and the client are built anew on every call
initializeVerifiers_recreates(v) ==
  [cognitoVerifier |-> Some(v.creates.cognito + 1),
   googleClient |-> Some(v.creates.google + 1),
   creates |-> [cognito |-> v.creates.cognito + 1,
                google |-> v.creates.google + 1]]

initializeVerifiers(v) ==
  LET google(c) ==
        IF c.googleClient = None
          THEN [c EXCEPT !.googleClient = Some(c.creates.google + 1),
                         !.creates.google = @ + 1]
          ELSE c
  IN  google(IF v.cognitoVerifier = None
               THEN [v EXCEPT !.cognitoVerifier = Some(v.creates.cognito + 1),
                              !.creates.cognito = @ + 1]
               ELSE v)

FnsOf(calls) == [i \in 1..Len(calls) |-> calls[i].fn]

\* verifyCognitoToken and the standard path of verifyGoogleToken call
\* initializeVerifiers before they use the verifier / the client
RECURSIVE initializedBy(_, _)
initializedBy(v, fns) ==
  IF fns = <<>> THEN v
  ELSE IF Head(fns) \in {"cognitoVerifier.verify", "googleClient.verifyIdToken"}
    THEN initializedBy(initializeVerifiers(v), Tail(fns))
    ELSE initializedBy(v, Tail(fns))

(***************************************************************************)
(* AuthService.login (auth-service.ts)                                     *)
(***************************************************************************)
\* COGNITO_CLIENT_SECRET is a required variable of the configuration
COGNITO_CLIENT_SECRET == Some("client-secret")

calculateSecretHash(username, secret) ==
  IF secret = None
    THEN [threw |-> TRUE, error |-> "COGNITO_CLIENT_SECRET not configured",
          hash |-> UNDEF]
    ELSE [threw |-> FALSE, error |-> "", hash |-> "hmac"]

NoTokens ==
  [accessToken |-> UNDEF, idToken |-> UNDEF, refreshToken |-> UNDEF,
   expiresIn |-> 0, tokenType |-> UNDEF]

\* variant: the refresh token of the provider's result is not passed on
login_dropsRefreshToken(req, secret, response) ==
  LET built(h) ==
        IF h.threw
          THEN [ok |-> FALSE, error |-> h.error, sends |-> 0,
                tokens |-> NoTokens]
        ELSE IF response.kind = "rejects"
          THEN [ok |-> FALSE, error |-> response.error, sends |-> 1,
                tokens |-> NoTokens]
        ELSE IF response.AuthenticationResult = None
          THEN [ok |-> FALSE, error |-> "Authentication failed", sends |-> 1,
                tokens |-> NoTokens]
          ELSE [ok |-> TRUE, error |-> "", sends |-> 1,
                tokens |->
                  [accessToken |-> response.AuthenticationResult[1].AccessToken,
                   idToken |-> response.AuthenticationResult[1].IdToken,
                   refreshToken |-> UNDEF,
                   expiresIn |-> response.AuthenticationResult[1].ExpiresIn,
                   tokenType |-> response.AuthenticationResult[1].TokenType]]
  IN  built(calculateSecretHash(req.email, secret))

\* response is what cognitoClient.send(command) settles with; the result
\* records the outcome of the promise and the number of send calls
login(req, secret, response) ==
  LET built(h) ==
        IF h.threw
          THEN [ok |-> FALSE, error |-> h.error, sends |-> 0,
                tokens |-> NoTokens]
        ELSE IF response.kind = "rejects"
          THEN [ok |-> FALSE, error |-> response.error, sends |-> 1,
                tokens |-> NoTokens]
        ELSE IF response.AuthenticationResult = None
          THEN [ok |-> FALSE, error |-> "Authentication failed", sends |-> 1,
                tokens |-> NoTokens]
          ELSE [ok |-> TRUE, error |-> "", sends |-> 1,
                tokens |->
                  [accessToken |-> response.AuthenticationResult[1].AccessToken,
                   idToken |-> response.AuthenticationResult[1].IdToken,
                   refreshToken |-> response.AuthenticationResult[1].RefreshToken,
                   expiresIn |-> response.AuthenticationResult[1].ExpiresIn,
                   tokenType |-> response.AuthenticationResult[1].TokenType]]
  IN  built(calculateSecretHash(req.email, secret))

(***************************************************************************)
(* Frontend: TokenStorage (utils/token-storage.ts), authReducer and        *)
(* AuthProvider (contexts/AuthContext.tsx).  Browser time is counted in    *)
(* periods of the refresh timer; Date.now() is in milliseconds.            *)
(***************************************************************************)
CheckIntervalMs == 60000

RefreshMargin == 300

DateNow(clock) == clock * CheckIntervalMs

\* localStorage item 'auth_tokens': None or Some({...tokens, timestamp})
setTokens(tokens, nowMs) ==
  Some([accessToken |-> tokens.accessToken, idToken |-> tokens.idToken,
        refreshToken |-> tokens.refreshToken, expiresIn |-> tokens.expiresIn,
        tokenType |-> tokens.tokenType, timestamp |-> nowMs])

clearTokens == None

\* the tokens read, and the item left in localStorage
getTokens(item, nowMs) ==
  IF item = None THEN [tokens |-> None, item |-> None]
  ELSE IF (nowMs - item[1].timestamp) \div 1000 > item[1].expiresIn
    THEN [tokens |-> None, item |-> clearTokens]
    ELSE [tokens |-> Some([accessToken |-> item[1].accessToken,
                           idToken |-> item[1].idToken,
                           refreshToken |-> item[1].refreshToken,
                           expiresIn |-> item[1].expiresIn,
                           tokenType |-> item[1].tokenType]),
          item |-> item]

initialState ==
  [user |-> None, tokens |-> None, isLoading |-> TRUE,
   isAuthenticated |-> FALSE, error |-> None, authMethod |-> "null"]

\* an action's payload fields that its type does not use are ignored
Action(type) ==
  [type |-> type, tokens |-> None, user |-> None, authMethod |-> "null",
   isAuthenticated |-> FALSE, error |-> None]

authReducer(state, action) ==
  CASE action.type = "LOGIN_START" ->
         [state EXCEPT !.isLoading = TRUE, !.error = None]
    [] action.type = "LOGIN_SUCCESS" ->
         [state EXCEPT !.user = action.user, !.tokens = action.tokens,
                       !.isLoading = FALSE, !.isAuthenticated = TRUE,
                       !.error = None, !.authMethod = action.authMethod]
    [] action.type = "LOGIN_FAILURE" ->
         [state EXCEPT !.user = None, !.tokens = None, !.isLoading = FALSE,
                       !.isAuthenticated = FALSE, !.error = action.error,
                       !.authMethod = "null"]
    [] action.type = "LOGOUT" ->
         [state EXCEPT !.user = None, !.tokens = None,
                       !.isAuthenticated = FALSE, !.error = None,
                       !.authMethod = "null"]
    [] action.type = "TOKEN_REFRESHED" ->
         [state EXCEPT !.tokens = action.tokens]
    [] action.type = "AUTH_CHECKED" ->
         [state EXCEPT !.isAuthenticated = action.isAuthenticated,
                       !.user = action.user, !.authMethod = action.authMethod,
                       !.isLoading = FALSE]
    [] OTHER -> state

\* the auto-refresh effect has an interval running
refreshEffectActive(state) ==
  state.tokens # None /\ state.isAuthenticated /\ state.authMethod = "token"

\* the test of the interval callback on the tokens read from storage
refreshDue(tokens) == (tokens.expiresIn - RefreshMargin) * 1000 <= 0

\* the AuthProvider with its storage: the reducer state, the localStorage
\* item, the browser clock, where login() stands, and the refreshTokens()
\* and logout() calls awaiting their response.  loggedOut (a logout has
\* completed while no login was in progress, and no login was started
\* since) and refreshCalled (the interval called refreshTokens since tokens
\* were last stored) record history only.
Mounted ==
  [booted |-> FALSE, state |-> initialState, storage |-> None, clock |-> 0,
   loginPc |-> "idle", loginTokens |-> None, refreshes |-> 0, logouts |-> 0,
   loggedOut |-> FALSE, refreshCalled |-> FALSE]

\* checkAuthStatus: user is what getCurrentUser settled with, tokens what
\* tokenStorage.getTokens() returned
checkAuthStatus(user, tokens) ==
  IF user # None
    THEN [Action("AUTH_CHECKED") EXCEPT
            !.isAuthenticated = TRUE, !.user = user,
            !.authMethod = IF tokens # None THEN "token" ELSE "cookie"]
    ELSE Action("AUTH_CHECKED")

\* the synchronous part of refreshTokens(): without a stored refresh token
\* logout() is called, otherwise the refresh request is sent
refreshTokens(f) ==
  LET read(g) ==
        IF g.tokens = None \/ ~Truthy(g.tokens[1].refreshToken)
          THEN [f EXCEPT !.storage = g.item, !.logouts = @ + 1]
          ELSE [f EXCEPT !.storage = g.item, !.refreshes = @ + 1]
  IN  read(getTokens(f.storage, DateNow(f.clock)))

\* the callback of the refresh interval
tokenRefreshInterval(f) ==
  LET read(g) ==
        IF g.tokens # None /\ refreshDue(g.tokens[1])
          THEN refreshTokens([f EXCEPT !.storage = g.item,
                                       !.refreshCalled = TRUE])
          ELSE [f EXCEPT !.storage = g.item]
  IN  read(getTokens(f.storage, DateNow(f.clock)))

(***************************************************************************)
(* Inputs                                                                  *)
(***************************************************************************)
Modes == {"server", "lambda", "authorizer", "login", "frontend"}

EnvVars == {"AWS_LAMBDA_FUNCTION_NAME", "AWS_EXECUTION_ENV", "AWS_REGION",
            "AWS_LAMBDA_RUNTIME_API"}

\* the set of markers that are set (non-empty) in process.env
EnvOf(S) == [v \in EnvVars |-> v \in S]

ProcEnvs ==
  {EnvOf({}), EnvOf({"AWS_REGION"}), EnvOf({"AWS_LAMBDA_FUNCTION_NAME"}),
   EnvOf({"AWS_EXECUTION_ENV"}), EnvOf({"AWS_REGION", "AWS_LAMBDA_RUNTIME_API"})}

ValidCognitoToken == JwtToken(TRUE, FALSE, CognitoClaims)

ValidCompatToken == CompatToken("obj", GoodClaims)

\* the context map API Gateway attaches: principalId plus the authorizer's
\* string-keyed context
GatewayOutput(principalId, context) ==
  [k \in {"principalId"} |-> principalId] @@ context

AuthorizerMaps ==
  {GatewayOutput("u-2", stringAuthContext(createAuthContext(CognitoClaims, "cognito"))),
   GatewayOutput("u-1", stringAuthContext(createAuthContext(GoodClaims, "google"))),
   GatewayOutput("user", EmptyMap),
   GatewayOutput("u-3", [k \in {"userId", "tokenType"} |->
                           IF k = "userId" THEN "u-3" ELSE "cognito"]),
   GatewayOutput("u-3", [k \in {"userId", "email"} |->
                           IF k = "userId" THEN "u-3" ELSE "cy@example.com"]),
   GatewayOutput("u-3", [k \in {"username", "email", "tokenType"} |->
                           CASE k = "username" -> "cy"
                             [] k = "email" -> "cy@example.com"
                             [] k = "tokenType" -> "cognito"])}

XAuthCognito ==
  [k \in {"x-auth-user-id", "x-auth-email", "x-auth-token-type",
          "x-auth-email-verified"} |->
     CASE k = "x-auth-user-id" -> "u-4"
       [] k = "x-auth-email" -> "dee@example.com"
       [] k = "x-auth-token-type" -> "cognito"
       [] k = "x-auth-email-verified" -> "true"]

XAuthGoogle ==
  [k \in {"x-auth-user-id", "x-auth-email", "x-auth-token-type", "x-auth-name"} |->
     CASE k = "x-auth-user-id" -> "u-5"
       [] k = "x-auth-email" -> "eve@example.com"
       [] k = "x-auth-token-type" -> "google"
       [] k = "x-auth-name" -> "Eve"]

Headers(authorization, x) ==
  [authorization |-> authorization, Authorization |-> HUndefined, x |-> x]

Cookies(accessToken) == [access_token |-> accessToken]

BearerHeader(t) == HString(<<Bearer, SP, t>>)

PlatformEvent(rc, headers, cookies) ==
  [requestId |-> "", path |-> "/api/user", requestContext |-> rc,
   headers |-> headers, cookies |-> cookies]

RequestContext(authorizer) == Some([authorizer |-> authorizer])

NoHeaders == Headers(HUndefined, EmptyMap)

LambdaEvents ==
  {PlatformEvent(RequestContext(Some(m)), NoHeaders, Cookies(HUndefined)) :
      m \in AuthorizerMaps}
  \cup {PlatformEvent(RequestContext(Some(GatewayOutput("user", EmptyMap))),
                      Headers(BearerHeader(ValidCognitoToken), XAuthGoogle),
                      Cookies(HUndefined))}
  \cup {PlatformEvent(RequestContext(None), Headers(HUndefined, x),
                      Cookies(HUndefined)) :
          x \in {XAuthCognito, [XAuthCognito EXCEPT !["x-auth-email"] = ""],
                 XAuthGoogle,
                 [k \in {"x-auth-user-id", "x-auth-email"} |-> XAuthCognito[k]]}}
  \cup {PlatformEvent(RequestContext(None),
                      Headers(BearerHeader(ValidCognitoToken), EmptyMap),
                      Cookies(HUndefined))}
  \cup {PlatformEvent(None, Headers(BearerHeader(ValidCognitoToken), EmptyMap),
                      Cookies(HUndefined))}
  \cup {[PlatformEvent(RequestContext(None), NoHeaders, Cookies(HUndefined))
          EXCEPT !.path = "/health"]}

CookieValues ==
  {HUndefined, HString(<<>>), HString(<<ValidCognitoToken>>),
   HString(<<ValidCompatToken>>),
   HString(<<CompatToken("obj", [GoodClaims EXCEPT !.exp = ExpNum(1)])>>),
   HString(<<CompatToken("obj", [GoodClaims EXCEPT !.sub = UNDEF])>>),
   HString(<<CompatToken("obj", [GoodClaims EXCEPT !.aud = OtherAudience])>>),
   HString(<<ValidCompatToken, SP, ValidCompatToken>>)}

\* the verified Google ID-token payload with the Cognito user name added:
\* {...googleUser, userId: user.Username}
GoogleUser(userId, name, family_name, picture) ==
  [sub |-> "g-108", userId |-> userId, email |-> "ann@example.com",
   email_verified |-> "true", name |-> name, given_name |-> "Ann",
   family_name |-> family_name, picture |-> picture]

GoogleUsers ==
  {GoogleUser(u, n, f, p) :
     u \in {"ann@example.com", "3f2a-uuid"}, n \in {"Ann Lee", UNDEF},
     f \in {"Lee", "", UNDEF}, p \in {"https://lh3.example/ann.png", UNDEF}}

\* a request of the standalone server: no platform event is attached
ServerRequests ==
  {[url |-> u, headers |-> Headers(a, x), cookies |-> Cookies(c),
    awsLambda |-> None, event |-> None, lambdaEvent |-> None] :
      u \in {"/api/user", "/health"}, a \in HeaderValues,
      x \in {EmptyMap, XAuthCognito}, c \in CookieValues}

MethodArn == "arn:aws:execute-api:GET/users"

AuthorizerEvents ==
  {[authorizationToken |-> h, methodArn |-> MethodArn] :
      h \in HeaderValues \cup {HObject}}

\* the request @fastify/aws-lambda builds from the platform event
requestOf(event) ==
  [url |-> event.path, headers |-> event.headers, cookies |-> event.cookies,
   awsLambda |-> Some(event), event |-> None, lambdaEvent |-> None]

\* LoginRequest
LoginRequests ==
  [email : {"ann@example.com", "bob@example.com"},
   password : {"password123", "wrongpassword"}]

\* InitiateAuthCommandOutput of a USER_PASSWORD_AUTH flow: the token set,
\* or a challenge (no AuthenticationResult); or the call rejects
AuthenticationResults ==
  [AccessToken : {"access-1", "access-2"}, IdToken : {"id-1"},
   RefreshToken : {"refresh-1", "refresh-2"}, ExpiresIn : {300, 3600},
   TokenType : {"Bearer"}]

ProviderResponses ==
  [kind : {"rejects"}, error : {"Invalid credentials", "NetworkingError"},
   AuthenticationResult : {None}]
  \cup [kind : {"resolves"}, error : {""},
        AuthenticationResult : {None} \cup {Some(a) : a \in AuthenticationResults}]

\* what the browser and the backend hand to the AuthProvider
ExpiresIns == {300, 600}

AuthTokens(accessToken, expiresIn) ==
  [accessToken |-> accessToken, idToken |-> "id-1",
   refreshToken |-> "refresh-1", expiresIn |-> expiresIn,
   tokenType |-> "Bearer"]

UserResults == {None, Some("ann@example.com")}

StoredAtLoad == {None, setTokens(AuthTokens("access-0", 600), 0)}

(***************************************************************************)
(* State machine                                                           *)
(***************************************************************************)
Idle == [pc |-> "idle", event |-> None, result |-> NoResult, reply |-> NoReply]

Init ==
  /\ mode \in Modes
  /\ procEnv \in ProcEnvs
  /\ now = 1
  /\ currentLambdaEvent = None
  /\ inv = [i \in Invocations |-> Idle]
  /\ request = None
  /\ policy = None
  /\ session = None
  /\ verifiers = NoVerifiers
  /\ loginCall = None
  /\ fe \in {[Mounted EXCEPT !.storage = item] :
               item \in IF mode = "frontend" THEN StoredAtLoad ELSE {None}}

\* wall-clock time (UNIX seconds, positive) advances
Tick ==
  /\ now < MaxTime
  /\ now' = now + 1
  /\ UNCHANGED <<fe, verifiers, loginCall, session, mode, procEnv, currentLambdaEvent, inv, request, policy>>

\* the standalone server handles one request: the registerAuth hook, then
\* the gate of a protected route, then the route handler
ServerRequest ==
  /\ mode = "server"
  /\ request = None
  /\ \E req \in ServerRequests :
       LET served(pre) ==
             Some([req |-> req, at |-> now, result |-> pre,
                   reply |-> routeRequest(req.url, pre)])
           handled(pre) ==
             /\ request' = served(pre)
             /\ verifiers' = initializedBy(verifiers, FnsOf(pre.calls))
       IN  handled(preHandler(req, currentLambdaEvent))
  /\ UNCHANGED <<fe, loginCall, session, mode, procEnv, now, currentLambdaEvent, inv, policy>>

\* the response is sent and the request object is dropped
ServerRespond ==
  /\ mode = "server"
  /\ request # None
  /\ request' = None
  /\ UNCHANGED <<fe, verifiers, loginCall, session, mode, procEnv, now, currentLambdaEvent, inv, policy>>

\* the Lambda authorizer is invoked with a TOKEN event
AuthorizerInvoke ==
  /\ mode = "authorizer"
  /\ policy = None
  /\ \E e \in AuthorizerEvents :
       LET returned(out) ==
             /\ policy' = Some([event |-> e, at |-> now, out |-> out])
             /\ verifiers' = initializedBy(verifiers, out.calls)
       IN  returned(authorizerHandler(e))
  /\ UNCHANGED <<fe, loginCall, session, mode, procEnv, now, currentLambdaEvent, inv, request>>

\* API Gateway consumes the policy
AuthorizerReturn ==
  /\ mode = "authorizer"
  /\ policy # None
  /\ policy' = None
  /\ UNCHANGED <<fe, verifiers, loginCall, session, mode, procEnv, now, currentLambdaEvent, inv, request>>

\* AuthService.authenticateWithGoogle after Google verified the ID token:
\* handleGoogleFederatedAuth creates the federated tokens and the client
\* receives them
authenticateWithGoogle ==
  /\ mode = "login"
  /\ session = None
  /\ \E g \in GoogleUsers :
       session' = Some([googleUser |-> g, at |-> now,
                        tokens |-> createFederatedTokens(g)])
  /\ UNCHANGED <<fe, verifiers, loginCall, mode, procEnv, now, currentLambdaEvent, inv, request, policy>>

\* GET /auth/logout: the client's tokens are cleared
Logout ==
  /\ mode = "login"
  /\ session # None
  /\ session' = None
  /\ UNCHANGED <<fe, verifiers, loginCall, mode, procEnv, now, currentLambdaEvent, inv, request, policy>>

\* POST /auth/login: one call of AuthService.login
Login ==
  /\ mode = "login"
  /\ \E req \in LoginRequests, response \in ProviderResponses :
       loginCall' = Some([request |-> req, response |-> response, at |-> now,
                          result |-> login(req, COGNITO_CLIENT_SECRET, response)])
  /\ UNCHANGED <<fe, verifiers, session, mode, procEnv, now, currentLambdaEvent, inv, request, policy>>

\* the AuthProvider mounts: the initAuth effect
initAuth ==
  /\ mode = "frontend"
  /\ ~fe.booted
  /\ \E user, again \in UserResults :
       LET read(g) ==
             IF g.tokens # None /\ user # None
               THEN [fe EXCEPT
                       !.booted = TRUE, !.storage = g.item,
                       !.state = authReducer(@,
                          [Action("LOGIN_SUCCESS") EXCEPT
                             !.tokens = g.tokens, !.user = user,
                             !.authMethod = "token"])]
               ELSE [fe EXCEPT
                       !.booted = TRUE, !.storage = clearTokens,
                       !.state = authReducer(@, checkAuthStatus(again, None))]
       IN  fe' = read(getTokens(fe.storage, DateNow(fe.clock)))
  /\ UNCHANGED <<verifiers, loginCall, session, mode, procEnv, now, currentLambdaEvent, inv, request, policy>>

\* login(): LOGIN_START, then the login request is sent
loginStart ==
  /\ mode = "frontend"
  /\ fe.booted
  /\ fe.loginPc = "idle"
  /\ fe' = [fe EXCEPT !.state = authReducer(@, Action("LOGIN_START")),
                      !.loginPc = "awaitLogin", !.loggedOut = FALSE]
  /\ UNCHANGED <<verifiers, loginCall, session, mode, procEnv, now, currentLambdaEvent, inv, request, policy>>

\* login(): authService.login settles; the tokens are stored and the user
\* profile is requested
loginSettled ==
  /\ mode = "frontend"
  /\ fe.loginPc = "awaitLogin"
  /\ \/ \E e \in ExpiresIns :
          fe' = [fe EXCEPT
                   !.storage = setTokens(AuthTokens("access-1", e),
                                         DateNow(fe.clock)),
                   !.refreshCalled = FALSE,
                   !.loginTokens = Some(AuthTokens("access-1", e)),
                   !.loginPc = "awaitUser"]
     \/ fe' = [fe EXCEPT
                 !.state = authReducer(@,
                    [Action("LOGIN_FAILURE") EXCEPT !.error = Some("Login failed")]),
                 !.loginPc = "idle"]
  /\ UNCHANGED <<verifiers, loginCall, session, mode, procEnv, now, currentLambdaEvent, inv, request, policy>>

\* login(): authService.getCurrentUser settles
loginUser ==
  /\ mode = "frontend"
  /\ fe.loginPc = "awaitUser"
  /\ \E user \in UserResults :
       fe' = [fe EXCEPT
                !.state = authReducer(@,
                   IF user # None
                     THEN [Action("LOGIN_SUCCESS") EXCEPT
                             !.tokens = fe.loginTokens, !.user = user,
                             !.authMethod = "token"]
                     ELSE [Action("LOGIN_FAILURE") EXCEPT
                             !.error = Some("Request failed")]),
                !.loginPc = "idle", !.loginTokens = None]
  /\ UNCHANGED <<verifiers, loginCall, session, mode, procEnv, now, currentLambdaEvent, inv, request, policy>>

\* logout() is called: the logout request is sent
logoutStart ==
  /\ mode = "frontend"
  /\ fe.booted
  /\ fe.logouts < MaxPending
  /\ fe' = [fe EXCEPT !.logouts = @ + 1]
  /\ UNCHANGED <<verifiers, loginCall, session, mode, procEnv, now, currentLambdaEvent, inv, request, policy>>

\* logout(): authService.logout settles (either way): clearTokens, LOGOUT
logoutDone ==
  /\ mode = "frontend"
  /\ fe.logouts > 0
  /\ fe' = [fe EXCEPT !.storage = clearTokens,
                      !.state = authReducer(@, Action("LOGOUT")),
                      !.logouts = @ - 1,
                      !.loggedOut = (fe.loginPc = "idle")]
  /\ UNCHANGED <<verifiers, loginCall, session, mode, procEnv, now, currentLambdaEvent, inv, request, policy>>

\* refreshTokens(): authService.refreshToken resolves with new tokens
refreshResolved ==
  /\ mode = "frontend"
  /\ fe.refreshes > 0
  /\ \E e \in ExpiresIns :
       fe' = [fe EXCEPT
                !.storage = setTokens(AuthTokens("access-2", e),
                                      DateNow(fe.clock)),
                !.refreshCalled = FALSE,
                !.state = authReducer(@,
                   [Action("TOKEN_REFRESHED") EXCEPT
                      !.tokens = Some(AuthTokens("access-2", e))]),
                !.refreshes = @ - 1]
  /\ UNCHANGED <<verifiers, loginCall, session, mode, procEnv, now, currentLambdaEvent, inv, request, policy>>

\* refreshTokens(): authService.refreshToken rejects: logout() is called
refreshRejected ==
  /\ mode = "frontend"
  /\ fe.refreshes > 0
  /\ fe.logouts < MaxPending
  /\ fe' = [fe EXCEPT !.refreshes = @ - 1, !.logouts = @ + 1]
  /\ UNCHANGED <<verifiers, loginCall, session, mode, procEnv, now, currentLambdaEvent, inv, request, policy>>

\* one period of the refresh timer passes; the callback runs if the effect
\* has an interval.  A login in progress is answered within the period.
Minute ==
  /\ mode = "frontend"
  /\ fe.booted
  /\ fe.loginPc = "idle"
  /\ fe.clock < MaxMinutes
  /\ LET later(f) ==
           /\ f.refreshes <= MaxPending
           /\ f.logouts <= MaxPending
           /\ fe' = f
     IN  later(IF refreshEffectActive(fe.state)
                 THEN tokenRefreshInterval([fe EXCEPT !.clock = @ + 1])
                 ELSE [fe EXCEPT !.clock = @ + 1])
  /\ UNCHANGED <<verifiers, loginCall, session, mode, procEnv, now, currentLambdaEvent, inv, request, policy>>

setLambdaEvent(event) == currentLambdaEvent' = Some(event)

clearLambdaEvent == currentLambdaEvent' = None

\* Lambda handler up to its first await: setLambdaEvent(event)
LambdaStart(i) ==
  /\ mode = "lambda"
  /\ inv[i].pc = "idle"
  /\ \E e \in LambdaEvents :
       LET event == [e EXCEPT !.requestId = i] IN
       /\ setLambdaEvent(event)
       /\ inv' = [inv EXCEPT ![i] = [pc |-> "started", event |-> Some(event),
                                     result |-> NoResult, reply |-> NoReply]]
  /\ UNCHANGED <<fe, verifiers, loginCall, session, mode, procEnv, now, request, policy>>

\* the wrapped Fastify app runs the registerAuth hook, the gate and the
\* route handler for the invocation's request
LambdaPreHandler(i) ==
  /\ mode = "lambda"
  /\ inv[i].pc = "started"
  /\ LET served(pre) ==
           [inv EXCEPT ![i].pc = "handled", ![i].result = pre,
                       ![i].reply = routeRequest(inv[i].event[1].path, pre)]
         handled(pre) ==
           /\ inv' = served(pre)
           /\ verifiers' = initializedBy(verifiers, FnsOf(pre.calls))
     IN  handled(preHandler(requestOf(inv[i].event[1]), currentLambdaEvent))
  /\ UNCHANGED <<fe, loginCall, session, mode, procEnv, now, currentLambdaEvent, request, policy>>

\* finally { clearLambdaEvent() } and the handler returns
LambdaEnd(i) ==
  /\ mode = "lambda"
  /\ inv[i].pc = "handled"
  /\ clearLambdaEvent
  /\ inv' = [inv EXCEPT ![i] = Idle]
  /\ UNCHANGED <<fe, verifiers, loginCall, session, mode, procEnv, now, request, policy>>

Next ==
  \/ Tick
  \/ ServerRequest
  \/ ServerRespond
  \/ AuthorizerInvoke
  \/ AuthorizerReturn
  \/ authenticateWithGoogle
  \/ Logout
  \/ Login
  \/ initAuth
  \/ loginStart
  \/ loginSettled
  \/ loginUser
  \/ logoutStart
  \/ logoutDone
  \/ refreshResolved
  \/ refreshRejected
  \/ Minute
  \/ \E i \in Invocations : LambdaStart(i)
  \/ \E i \in Invocations : LambdaPreHandler(i)
  \/ \E i \in Invocations : LambdaEnd(i)

Spec == Init /\ [][Next]_vars

(***************************************************************************)
(* Properties                                                              *)
(***************************************************************************)
\* results of the registerAuth hook that are currently held by a request
PreResults ==
  (IF request # None THEN {request[1].result} ELSE {})
  \cup {inv[i].result : i \in {j \in Invocations : inv[j].pc = "handled"}}

\* the header is exactly 'Bearer', one space, one space-free token
IsBearer(h) ==
  h.type = "string" /\ Len(h.s) = 3 /\ h.s[1] = Bearer /\ h.s[2] = SP
  /\ h.s[3] # SP

TokenIn(h) == h.s[3]

\* C1: every context the registerAuth hook attaches has a non-empty userId
\* and a non-empty email; otherwise the context is null.
C1_ContextComplete ==
  \A r \in PreResults :
    r.authContext # None =>
      Truthy(r.authContext[1].userId) /\ Truthy(r.authContext[1].email)

\* C2: the authorizer handler never throws and answers Allow exactly when
\* authorizeRequest(event.authorizationToken) succeeds; a missing or empty
\* token, a malformed header, a token no verifier accepts and a non-string
\* token (a TypeError, not an AuthorizationError) all give Deny.
C2_AllowIffAuthorized ==
  (policy # None /\ policy[1].at = now) =>
    LET p == policy[1]
        h == p.event.authorizationToken
        effect == p.out.result.effect
    IN  /\ ~p.out.threw
        /\ effect \in {"Allow", "Deny"}
        /\ (effect = "Allow") <=> authorizeRequest(h).ok
        /\ ~IsBearer(h) => effect = "Deny"
        /\ (IsBearer(h) /\ ~TokenIn(h).cognitoOK /\ ~TokenIn(h).googleOK
              /\ ~TokenIn(h).pfx) => effect = "Deny"
        /\ p.out.error.name \notin {"", "AuthorizationError"} => effect = "Deny"

C2_Witness ==
  /\ policy # None
  /\ policy[1].out.error.name = "TypeError"
  /\ policy[1].out.result.effect = "Deny"

\* C3: a compatibility token whose exp is a UNIX-seconds number (positive)
\* less than or equal to the time of the check is rejected: exp equal to now
\* counts as expired.
C3_RejectsAtOrAfterExpiry ==
  policy # None =>
    LET p == policy[1]
        h == p.event.authorizationToken
    IN  (IsBearer(h) /\ TokenIn(h).pfx /\ TokenIn(h).body = "obj"
           /\ TokenIn(h).claims.exp.kind = "num"
           /\ TokenIn(h).claims.exp.n >= 1
           /\ TokenIn(h).claims.exp.n <= p.at)
        => p.out.result.effect = "Deny"

\* a compatibility token (decodable or not) whose aud is not the configured
\* Google client id
BadAudience(t) == t.pfx /\ t.claims.aud # GoogleClientId

\* C4: a compatibility token whose aud differs from the configured Google
\* client id (or has no aud) yields no identity context: the authorizer
\* denies it, and the standalone hook takes no context from a header or a
\* cookie that carries it.
C4_WrongAudienceRejected ==
  /\ policy # None =>
       LET h == policy[1].event.authorizationToken IN
       (IsBearer(h) /\ BadAudience(TokenIn(h)))
         => policy[1].out.result.effect = "Deny"
  /\ request # None =>
       LET h == request[1].req.headers.authorization
           c == request[1].req.cookies.access_token
           r == request[1].result
       IN  /\ (IsBearer(h) /\ BadAudience(TokenIn(h))) => r.source # "header"
           /\ (c.type = "string" /\ Len(c.s) = 1 /\ BadAudience(c.s[1]))
                => r.source # "cookie"

C4_Witness ==
  /\ policy # None
  /\ IsBearer(policy[1].event.authorizationToken)
  /\ TokenIn(policy[1].event.authorizationToken) =
       CompatToken("obj", [GoodClaims EXCEPT !.aud = OtherAudience])
  /\ policy[1].out.result.effect = "Deny"

\* C5 (as stated): the 'google.' prefix alone selects the verifier: a
\* prefixed token goes to the compatibility path only, any other token to
\* the Cognito verifier only, and nothing else is tried.
C5_ShapeAloneSelectsVerifier ==
  policy # None =>
    LET h == policy[1].event.authorizationToken
        calls == policy[1].out.calls
    IN  IsBearer(h) =>
          /\ TokenIn(h).pfx => calls = <<"verifyCustomGoogleToken">>
          /\ ~TokenIn(h).pfx => calls = <<"cognitoVerifier.verify">>

\* C5 (amended): every token is submitted to the Cognito verifier first;
\* only when that fails verifyGoogleToken runs, which sends a 'google.'
\* token to the compatibility path and any other token to the Google
\* ID-token verifier; nothing is tried after that.
C5_CognitoFirstThenGoogle ==
  policy # None =>
    LET h == policy[1].event.authorizationToken
        calls == policy[1].out.calls
    IN  IsBearer(h) =>
          /\ TokenIn(h).cognitoOK => calls = <<"cognitoVerifier.verify">>
          /\ (~TokenIn(h).cognitoOK /\ TokenIn(h).pfx)
               => calls = <<"cognitoVerifier.verify", "verifyCustomGoogleToken">>
          /\ (~TokenIn(h).cognitoOK /\ ~TokenIn(h).pfx)
               => calls = <<"cognitoVerifier.verify", "googleClient.verifyIdToken">>

C5_Witness ==
  /\ policy # None
  /\ IsBearer(policy[1].event.authorizationToken)
  /\ TokenIn(policy[1].event.authorizationToken).pfx
  /\ policy[1].out.result.effect = "Allow"
  /\ policy[1].out.calls = <<"cognitoVerifier.verify", "verifyCustomGoogleToken">>

\* the Authorization header made from the access_token cookie
CookieHeader(c) == HString(<<Bearer, SP>> \o c.s)

\* C6: in the standalone branch the Authorization header is verified first,
\* the access_token cookie only when the header is absent or failed, and the
\* attached context comes from the first source that verifies.
C6_HeaderBeforeCookie ==
  (request # None /\ request[1].at = now /\ request[1].result.branch = "local") =>
    LET r == request[1].result
        h == request[1].req.headers.authorization
        c == request[1].req.cookies.access_token
        headerOK == HTruthy(h) /\ authorizeRequest(h).ok
        cookieOK == HTruthy(c) /\ authorizeRequest(CookieHeader(c)).ok
    IN  /\ r.attempts \in {<<>>, <<"header">>, <<"cookie">>, <<"header", "cookie">>}
        /\ HTruthy(h) => (r.attempts # <<>> /\ r.attempts[1] = "header")
        /\ \A i, j \in 1..Len(r.calls) :
             (r.calls[i].src = "cookie" /\ r.calls[j].src = "header") => j < i
        /\ headerOK => /\ r.attempts = <<"header">>
                       /\ r.source = "header"
                       /\ r.authContext = Some(authorizeRequest(h).context)
        /\ (~headerOK /\ cookieOK)
             => /\ r.source = "cookie"
                /\ r.authContext = Some(authorizeRequest(CookieHeader(c)).context)
        /\ (~headerOK /\ ~cookieOK) => r.authContext = None

C6_Witness ==
  /\ request # None
  /\ request[1].result.branch = "local"
  /\ request[1].result.attempts = <<"header", "cookie">>
  /\ request[1].result.source = "cookie"
  /\ request[1].result.authContext # None

\* the upstream authorizer output of an event, None when there is none
UpstreamOf(event) ==
  IF event = None \/ event[1].requestContext = None THEN None
  ELSE event[1].requestContext[1].authorizer

CompleteOutput(a) ==
  Truthy(Get(a, "userId")) /\ Truthy(Get(a, "email")) /\ Truthy(Get(a, "tokenType"))

Handled == {i \in Invocations : inv[i].pc = "handled"}

\* C7: in the managed-platform branch an authorizer output that carries
\* userId, email and tokenType becomes the request's context, and neither
\* authorizeRequest nor a verifier is invoked for the request.
C7_UpstreamOutputReused ==
  \A i \in Handled :
    LET r == inv[i].result
        a == UpstreamOf(r.event)
    IN  (r.branch = "aws" /\ a # None /\ CompleteOutput(a[1])) =>
          /\ r.authContext # None
          /\ r.authContext[1].userId = a[1].userId
          /\ r.authContext[1].email = a[1].email
          /\ r.authContext[1].tokenType = a[1].tokenType
          /\ r.attempts = <<>>
          /\ r.calls = <<>>

C7_Witness ==
  \E i \in Handled :
    /\ inv[i].result.branch = "aws"
    /\ UpstreamOf(inv[i].result.event) # None
    /\ CompleteOutput(UpstreamOf(inv[i].result.event)[1])
    /\ inv[i].result.source = "authorizer"

\* the request carries a bearer token the Token Verifier accepts
ValidBearer(h) == IsBearer(h) /\ TokenIn(h).cognitoOK

\* C8 (as stated): in the managed-platform branch without an upstream
\* authorizer output the hook verifies the Authorization header (then the
\* cookie), so a request with a valid bearer token gets a context.
C8_FallbackVerifiesBearer ==
  \A i \in Handled :
    LET r == inv[i].result
        h == inv[i].event[1].headers.authorization
    IN  (r.branch = "aws" /\ UpstreamOf(r.event) = None /\ ValidBearer(h))
          => r.authContext # None

\* C8 (amended): in the managed-platform branch without an upstream
\* authorizer output the hook reads the x-auth-* request headers: it
\* attaches a context exactly when x-auth-user-id, x-auth-email and
\* x-auth-token-type are all non-empty, and it never invokes the Token
\* Verifier, whatever bearer token the request carries.
C8_FallbackReadsXAuthHeaders ==
  \A i \in Handled :
    LET r == inv[i].result
        x == inv[i].event[1].headers.x
        trio == /\ Truthy(Get(x, "x-auth-user-id"))
                /\ Truthy(Get(x, "x-auth-email"))
                /\ Truthy(Get(x, "x-auth-token-type"))
    IN  (r.branch = "aws" /\ UpstreamOf(r.event) = None) =>
          /\ r.attempts = <<>>
          /\ r.calls = <<>>
          /\ (r.authContext # None) <=> trio
          /\ r.authContext # None =>
               /\ r.authContext[1].userId = x["x-auth-user-id"]
               /\ r.authContext[1].email = x["x-auth-email"]
               /\ r.authContext[1].tokenType = x["x-auth-token-type"]

C8_Witness ==
  \E i \in Handled :
    /\ inv[i].result.branch = "aws"
    /\ UpstreamOf(inv[i].result.event) = None
    /\ ValidBearer(inv[i].event[1].headers.authorization)
    /\ inv[i].result.authContext = None

\* C9: in the managed-platform branch an authorizer output that lacks
\* userId, email or tokenType yields no context of its own: the hook falls
\* back to the request's headers and never attaches a context built from
\* the incomplete output.
C9_IncompleteOutputFallsBack ==
  \A i \in Handled :
    LET r == inv[i].result
        a == UpstreamOf(r.event)
    IN  (r.branch = "aws" /\ a # None /\ ~CompleteOutput(a[1])) =>
          /\ r.source # "authorizer"
          /\ r.authContext = createAuthContextFromHeaders(inv[i].event[1].headers)

\* C10: the hook of an invocation reads no platform event but the
\* invocation's own, whatever other invocations are in flight.
C10_OwnEventOnly ==
  \A i \in Handled :
    inv[i].result.event # None => inv[i].result.event = inv[i].event

\* every request that has been through the hooks: its url, the result of
\* the registerAuth hook and what became of the request
Served ==
  (IF request # None
     THEN {[url |-> request[1].req.url, pre |-> request[1].result,
            reply |-> request[1].reply]}
     ELSE {})
  \cup {[url |-> inv[i].event[1].path, pre |-> inv[i].result,
         reply |-> inv[i].reply] : i \in Handled}

\* C11: on a route registered under requireAuth the route handler runs only
\* when request.authContext is non-null; when the hook left it null the gate
\* sets status 401 and ends the request before the handler.
C11_GateBeforeHandler ==
  \A q \in Served :
    q.url \in ProtectedRoutes =>
      /\ q.reply.handlerRan => q.pre.authContext # None
      /\ (~q.pre.threw /\ q.pre.authContext = None)
           => /\ q.reply.gate = "rejected"
              /\ q.reply.statusCode = 401
              /\ ~q.reply.handlerRan

C11_Witness ==
  /\ request # None
  /\ request[1].req.url = "/api/user"
  /\ request[1].req.headers.authorization = HString(<<>>)
  /\ request[1].req.cookies.access_token = HUndefined
  /\ request[1].result.branch = "local"
  /\ request[1].reply.statusCode = 401
  /\ ~request[1].reply.handlerRan

\* C12: in the standalone branch the hook never fails the request because a
\* verification failed: each error authorizeRequest throws for the header or
\* for the cookie is caught and logged, and the hook completes with a
\* context or with null.
C12_LocalBranchSwallowsErrors ==
  /\ \A r \in PreResults : r.branch = "local" => ~r.threw
  /\ (request # None /\ request[1].at = now
        /\ request[1].result.branch = "local") =>
       LET r == request[1].result
           h == request[1].req.headers.authorization
           c == request[1].req.cookies.access_token
           headerFailed == HTruthy(h) /\ ~authorizeRequest(h).ok
           cookieFailed == /\ ~(HTruthy(h) /\ authorizeRequest(h).ok)
                           /\ HTruthy(c)
                           /\ ~authorizeRequest(CookieHeader(c)).ok
       IN  /\ request[1].reply.statusCode # 500
           /\ r.authContext # None => r.source \in {"header", "cookie"}
           /\ headerFailed <=>
                (\E k \in 1..Len(r.errors) :
                   r.errors[k] = [src |-> "header",
                                  error |-> authorizeRequest(h).error])
           /\ cookieFailed <=>
                (\E k \in 1..Len(r.errors) :
                   r.errors[k] = [src |-> "cookie",
                                  error |-> authorizeRequest(CookieHeader(c)).error])
           /\ (headerFailed /\ cookieFailed) => r.authContext = None

C12_Witness ==
  /\ request # None
  /\ request[1].result.branch = "local"
  /\ ~request[1].result.threw
  /\ Len(request[1].result.errors) = 2
  /\ request[1].result.authContext = None

InvalidToken == AuthorizationError("Invalid token")

\* C13: whatever makes verifyToken fail (no verifier accepts the signature,
\* wrong audience, expired, undecodable payload), its caller sees the same
\* AuthorizationError 'Invalid token': the authorizer's catch block and the
\* catch blocks of the standalone hook receive nothing else for a
\* well-formed bearer header.
C13_UniformInvalidToken ==
  /\ policy # None =>
       LET h == policy[1].event.authorizationToken IN
       (IsBearer(h) /\ policy[1].out.result.effect = "Deny")
         => policy[1].out.error = InvalidToken
  /\ request # None =>
       LET r == request[1].result
           h == request[1].req.headers.authorization
           c == request[1].req.cookies.access_token
       IN  \A k \in 1..Len(r.errors) :
             \/ (r.errors[k].src = "header" /\ ~IsBearer(h))
             \/ (r.errors[k].src = "cookie" /\ Len(c.s) # 1)
             \/ r.errors[k].error = InvalidToken

\* a wrong audience in the header and an expired token in the cookie give
\* the same error
C13_Witness ==
  /\ request # None
  /\ request[1].at = 2
  /\ IsBearer(request[1].req.headers.authorization)
  /\ TokenIn(request[1].req.headers.authorization) =
       CompatToken("obj", [GoodClaims EXCEPT !.aud = OtherAudience])
  /\ request[1].req.cookies.access_token =
       HString(<<CompatToken("obj", [GoodClaims EXCEPT !.exp = ExpNum(1)])>>)
  /\ Len(request[1].result.errors) = 2
  /\ request[1].result.errors[1].error = request[1].result.errors[2].error

\* a token that no external verifier accepts and that is not a decodable
\* compatibility token
Unrecognized(t) ==
  ~t.cognitoOK /\ ~t.googleOK /\ (~t.pfx \/ t.body \in {"nojson", "null", "scalar"})

\* C14: a raw string that is neither a verifiable signed token nor a
\* decodable 'google.' token (bad base64, text that is not JSON, a JSON
\* payload that is null or not an object) makes verifyToken fail with an
\* AuthorizationError; no other kind of exception reaches its caller.
C14_MalformedGivesAuthorizationError ==
  policy # None =>
    LET h == policy[1].event.authorizationToken IN
    (IsBearer(h) /\ Unrecognized(TokenIn(h))) =>
      /\ ~policy[1].out.threw
      /\ policy[1].out.result.effect = "Deny"
      /\ policy[1].out.error.name = "AuthorizationError"

C14_Witness ==
  /\ policy # None
  /\ IsBearer(policy[1].event.authorizationToken)
  /\ TokenIn(policy[1].event.authorizationToken) = CompatToken("null", NoClaims)
  /\ policy[1].out.result.effect = "Deny"
  /\ policy[1].out.error.name = "AuthorizationError"

\* C15: createAuthContext fails when the verified claims lack sub or email:
\* a bearer token whose payload has no sub or no email never gets a context,
\* so the authorizer denies it.
C15_MissingClaimsRejected ==
  policy # None =>
    LET h == policy[1].event.authorizationToken IN
    (IsBearer(h) /\ (~Truthy(TokenIn(h).claims.sub)
                       \/ ~Truthy(TokenIn(h).claims.email)))
      => policy[1].out.result.effect = "Deny"

\* C16: createAuthContextFromHeaders gives null exactly when x-auth-user-id,
\* x-auth-email or x-auth-token-type is absent or empty; otherwise it gives a
\* context with those three values, the verified flag and the fields of the
\* token type, each defaulted as the code defaults it; it never throws.
C16_HeaderContext ==
  \A i \in Handled :
    LET r == inv[i].result
        x == inv[i].event[1].headers.x
        has(k) == k \in DOMAIN x /\ x[k] # ""
        val(k, d) == IF has(k) THEN x[k] ELSE d
    IN  (r.branch = "aws" /\ UpstreamOf(r.event) = None) =>
          /\ ~r.threw
          /\ (r.authContext = None) <=>
               ~(has("x-auth-user-id") /\ has("x-auth-email")
                   /\ has("x-auth-token-type"))
          /\ r.authContext # None =>
               LET c == r.authContext[1] IN
               /\ c.userId = x["x-auth-user-id"]
               /\ c.email = x["x-auth-email"]
               /\ c.tokenType = x["x-auth-token-type"]
               /\ c.emailVerified = (val("x-auth-email-verified", "") = "true")
               /\ c.tokenType = "cognito" =>
                    /\ c.username = val("x-auth-username", c.userId)
                    /\ c.tokenUse = val("x-auth-token-use", "")
               /\ c.tokenType # "cognito" =>
                    /\ c.name = val("x-auth-name", "")
                    /\ c.givenName = val("x-auth-given-name", "")
                    /\ c.familyName = val("x-auth-family-name", "")
                    /\ c.picture = val("x-auth-picture", "")

C16_Witness ==
  \E i \in Handled :
    /\ inv[i].result.branch = "aws"
    /\ UpstreamOf(inv[i].result.event) = None
    /\ inv[i].event[1].headers.x = XAuthGoogle
    /\ inv[i].result.authContext # None
    /\ inv[i].result.authContext[1].name = "Eve"
    /\ inv[i].result.authContext[1].picture = ""

\* the context the managed-platform branch builds from the authorizer's
\* Allow result, as API Gateway hands it over
ReadBack(result) ==
  authorizerMapping(GatewayOutput(result.principalId, result.context))

SameIdentity(c, d) ==
  /\ c.userId = d.userId
  /\ c.email = d.email
  /\ c.tokenType = d.tokenType
  /\ c.emailVerified = d.emailVerified
  /\ c.tokenType = "cognito" =>
       (c.username = d.username /\ c.tokenUse = d.tokenUse)
  /\ c.tokenType = "google" =>
       /\ c.name = d.name
       /\ c.givenName = d.givenName
       /\ c.familyName = d.familyName
       /\ c.picture = d.picture

\* C17: for every context c that createAuthContext produces, the
\* authorizer's string-keyed Allow context read back by the
\* managed-platform branch equals c in userId, email, tokenType,
\* emailVerified and the fields of its token type.
C17_AllowContextRoundTrip ==
  (policy # None /\ policy[1].at = now
     /\ policy[1].out.result.effect = "Allow") =>
    SameIdentity(authorizeRequest(policy[1].event.authorizationToken).context,
                 ReadBack(policy[1].out.result))

\* what verifyCustomGoogleToken gives for the access token of the session
Decoded == verifyCustomGoogleToken(session[1].tokens.accessToken)

SameProfile(payload, g) ==
  /\ payload.email = g.email
  /\ payload.name = g.name
  /\ payload.given_name = g.given_name
  /\ payload.family_name = g.family_name
  /\ payload.picture = g.picture

\* C18 (as stated): the compatibility token createFederatedTokens builds
\* from a Google user claims map decodes, before its expiry and under the
\* same Google client id, to a payload with the map's sub, email, name,
\* given_name, family_name and picture.
C18_RoundTripKeepsSub ==
  session # None =>
    /\ Decoded.ok
    /\ Decoded.payload.sub = session[1].googleUser.sub
    /\ SameProfile(Decoded.payload, session[1].googleUser)

\* C18 (amended): the token decodes, before its expiry and under the same
\* Google client id, to a payload whose sub is the map's userId (the
\* Cognito user name handleGoogleFederatedAuth adds to the Google payload)
\* and whose email, name, given_name, family_name and picture are the
\* map's; a field the map lacks is absent from the payload.
C18_RoundTripSubIsUserId ==
  session # None =>
    /\ Decoded.ok
    /\ Decoded.payload.sub = session[1].googleUser.userId
    /\ SameProfile(Decoded.payload, session[1].googleUser)
    /\ Decoded.payload.aud = GoogleClientId
    /\ Decoded.payload.exp = ExpNum(session[1].at + TokenLifetime)

C18_Witness ==
  /\ session # None
  /\ session[1].at < now
  /\ session[1].googleUser.userId = "3f2a-uuid"
  /\ session[1].googleUser.picture = UNDEF
  /\ Decoded.ok
  /\ Decoded.payload.sub = "3f2a-uuid"
  /\ Decoded.payload.picture = UNDEF

IdentityKeys == {"userId", "email", "tokenType", "emailVerified"}

CompatAccepted(tok, t) ==
  /\ tok.pfx
  /\ tok.body = "obj"
  /\ tok.claims.aud = GoogleClientId
  /\ ~(tok.claims.exp.kind = "num" /\ tok.claims.exp.n # 0 /\ tok.claims.exp.n < t)

AllowedTokenType == policy[1].out.result.context["tokenType"]

\* C20 (as stated): the tokenType of a context authorizeRequest returns is
\* 'cognito' exactly when the Cognito verification succeeded, and 'google'
\* exactly when the token was a compatibility token that the compatibility
\* path accepted.
C20_GoogleMeansCompatToken ==
  (policy # None /\ policy[1].out.result.effect = "Allow") =>
    LET tok == TokenIn(policy[1].event.authorizationToken) IN
    /\ (AllowedTokenType = "cognito") <=> tok.cognitoOK
    /\ (AllowedTokenType = "google") <=> CompatAccepted(tok, policy[1].at)

\* C20 (amended): tokenType is 'cognito' exactly when the Cognito
\* verification succeeded, and 'google' exactly when it failed and
\* verifyGoogleToken accepted the token: a 'google.' token by the
\* compatibility path, any other token by the Google ID-token verifier.
C20_TokenTypeNamesVerifier ==
  (policy # None /\ policy[1].out.result.effect = "Allow") =>
    LET tok == TokenIn(policy[1].event.authorizationToken) IN
    /\ (AllowedTokenType = "cognito") <=> tok.cognitoOK
    /\ (AllowedTokenType = "google") <=>
         /\ ~tok.cognitoOK
         /\ \/ CompatAccepted(tok, policy[1].at)
            \/ (~tok.pfx /\ tok.googleOK)

C20_Witness ==
  /\ policy # None
  /\ policy[1].out.result.effect = "Allow"
  /\ TokenIn(policy[1].event.authorizationToken) = JwtToken(FALSE, TRUE, GoodClaims)
  /\ AllowedTokenType = "google"

\* C21: getEnvironmentContext, extractLambdaEvent and extractAWSEventContext
\* never throw, whatever the event (null included) and the environment
\* variables are: the environment extraction at the head of the hook always
\* completes.
C21_DetectionNeverThrows ==
  \A r \in PreResults : ~r.threw

\* C22: isAWSEnvironment is true exactly when the event has a
\* requestContext, or AWS_LAMBDA_FUNCTION_NAME or AWS_EXECUTION_ENV is set,
\* or AWS_REGION and AWS_LAMBDA_RUNTIME_API are both set; otherwise
\* getEnvironmentContext reports isAWS false, isLocal true and no region.
C22_DetectionTruthTable ==
  \A r \in PreResults :
    LET hasRequestContext == r.event # None /\ r.event[1].requestContext # None
        expected ==
          \/ hasRequestContext
          \/ procEnv["AWS_LAMBDA_FUNCTION_NAME"]
          \/ procEnv["AWS_EXECUTION_ENV"]
          \/ (procEnv["AWS_REGION"] /\ procEnv["AWS_LAMBDA_RUNTIME_API"])
    IN  /\ r.env.isAWS <=> expected
        /\ ~expected => (r.env.isLocal /\ ~r.env.hasRegion /\ r.branch = "local")

C22_Witness ==
  /\ request # None
  /\ procEnv = EnvOf({"AWS_REGION"})
  /\ ~request[1].result.env.isAWS
  /\ request[1].result.env.isLocal
  /\ request[1].result.branch = "local"

Default(v) == IF Truthy(v) THEN v ELSE ""

\* C23: a google-type context built by createAuthContext (from verified
\* claims) or by createAuthContextFromHeaders (from x-auth-* headers) has
\* name, givenName, familyName and picture as strings: the source value
\* when there is one, the empty string otherwise, never undefined.
C23_FederatedProfileDefaults ==
  /\ (request # None /\ request[1].result.authContext # None
        /\ request[1].result.authContext[1].tokenType = "google") =>
       LET c == request[1].result.authContext[1]
           h == request[1].req.headers.authorization
           k == request[1].req.cookies.access_token
           claims == IF request[1].result.source = "header"
                       THEN TokenIn(h).claims ELSE k.s[1].claims
       IN  /\ c.name = Default(claims.name)
           /\ c.givenName = Default(claims.given_name)
           /\ c.familyName = Default(claims.family_name)
           /\ c.picture = Default(claims.picture)
           /\ UNDEF \notin {c.name, c.givenName, c.familyName, c.picture}
  /\ \A i \in Handled :
       LET r == inv[i].result
           x == inv[i].event[1].headers.x
       IN  (r.source = "x-auth" /\ r.authContext[1].tokenType = "google") =>
             LET c == r.authContext[1] IN
             /\ c.name = Default(Get(x, "x-auth-name"))
             /\ c.givenName = Default(Get(x, "x-auth-given-name"))
             /\ c.familyName = Default(Get(x, "x-auth-family-name"))
             /\ c.picture = Default(Get(x, "x-auth-picture"))
             /\ UNDEF \notin {c.name, c.givenName, c.familyName, c.picture}

C23_Witness ==
  /\ request # None
  /\ request[1].result.source = "cookie"
  /\ request[1].req.cookies.access_token = HString(<<ValidCompatToken>>)
  /\ request[1].result.authContext # None
  /\ request[1].result.authContext[1].name = "Ann Lee"
  /\ request[1].result.authContext[1].familyName = ""

\* C25: verifyCustomGoogleToken checks the expiry of every compatibility
\* token: a decodable token whose payload has no exp, or whose exp is 0 or
\* not a number, is rejected.
C25_ExpiryAlwaysChecked ==
  policy # None =>
    LET h == policy[1].event.authorizationToken IN
    (IsBearer(h) /\ TokenIn(h).pfx /\ TokenIn(h).body = "obj"
       /\ (TokenIn(h).claims.exp.kind # "num" \/ TokenIn(h).claims.exp.n = 0))
      => policy[1].out.result.effect = "Deny"

\* C28: extractTokenFromHeader yields a token only for 'Bearer', one space
\* and a space-free token; an absent or empty header fails with 'Missing
\* Authorization header', every other string with 'Invalid Authorization
\* header format', both as AuthorizationError and without any verifier
\* being called.
C28_BearerShapeOnly ==
  (policy # None /\ policy[1].event.authorizationToken.type # "object") =>
    LET h == policy[1].event.authorizationToken
        out == policy[1].out
    IN  /\ ~HTruthy(h) =>
             /\ out.error = AuthorizationError("Missing Authorization header")
             /\ out.calls = <<>>
        /\ (HTruthy(h) /\ ~IsBearer(h)) =>
             /\ out.error = AuthorizationError("Invalid Authorization header format")
             /\ out.calls = <<>>
        /\ IsBearer(h) => out.calls # <<>>

C24_WitnessRejected ==
  /\ loginCall # None
  /\ loginCall[1].response.kind = "resolves"
  /\ loginCall[1].result.error = "Authentication failed"

\* C27: on one AuthorizationService instance the Cognito verifier and the
\* Google client are each created at most once, and once set neither is
\* replaced or reset to null, whatever verifications are carried out.
C27_VerifiersCreatedOnce ==
  /\ [](verifiers.creates.cognito <= 1 /\ verifiers.creates.google <= 1)
  /\ [][/\ verifiers.cognitoVerifier # None =>
             verifiers'.cognitoVerifier = verifiers.cognitoVerifier
        /\ verifiers.googleClient # None =>
             verifiers'.googleClient = verifiers.googleClient]_vars

C27_Witness ==
  /\ policy # None
  /\ policy[1].out.calls = <<"cognitoVerifier.verify", "googleClient.verifyIdToken">>
  /\ verifiers.cognitoVerifier = Some(1)
  /\ verifiers.googleClient = Some(1)
  /\ verifiers.creates = [cognito |-> 1, google |-> 1]

C30_LogoutStaysLoggedOut ==
  fe.loggedOut => (fe.storage = None /\ fe.state.tokens = None)

=============================================================================
